---- MODULE Spec2Model ----
(***************************************************************************)
(* A model of groupby/gcal.py and groupby/linkedin.py: the calendar        *)
(* pipeline (_group, _process_calendar, _valid_date, plot, plot_data,      *)
(* get_plots, get_cal_dates) and the invite pipeline (clean_df,            *)
(* get_sent_receive_invites).                                              *)
(*                                                                         *)
(* Strings are sequences of one-character strings, so that prefix and      *)
(* substring tests are computed.  A data frame is a record                 *)
(* [columns, rows]: the sequence of its column names and the sequence of   *)
(* its rows, each row a record of its cells and its index label.           *)
(***************************************************************************)
EXTENDS Integers, Sequences, FiniteSets, TLC

VARIABLES
    s,            \* _group: the string to group
    groups,       \* _group: the ordered list of <<pattern, replacement>>
    group_ret,    \* _group: [rule |-> index of the rule that returned, 0 for
                  \*          the fall-through; value |-> the returned string]
    group_pc,     \* "call" before _group ran, "done" after
    plot_in,      \* plot: [flag, failing] the flag and the steps that raise
    plot_ret,     \* plot: [raised, value, done] of the last call
    plot_pc,
    date_in,      \* _valid_date: the argument
    date_ret,     \* _valid_date: [raised, value] of the last call
    date_pc,
    events,       \* _process_calendar: calendar.events, in iteration order
    cal_pc,       \* "file" before _process_calendar ran, "ready" after
    cal_df,       \* the caller's calendar table
    plots_ret,    \* get_plots: the last call's outcome
    dates_ret,    \* get_cal_dates: the last call's result
    df_in,        \* the invite table as it was loaded
    df,           \* the caller's invite table
    clean_ret,    \* clean_df: the results of the calls so far, in order
    invites_ret   \* get_sent_receive_invites: the last call's result

group_vars == <<s, groups, group_ret, group_pc>>
plot_vars  == <<plot_in, plot_ret, plot_pc>>
date_vars  == <<date_in, date_ret, date_pc>>
cal_vars   == <<events, cal_pc, cal_df, plots_ret, dates_ret>>
li_vars    == <<df_in, df, clean_ret, invites_ret>>
vars == <<group_vars, plot_vars, date_vars, cal_vars, li_vars>>

None == "None"

\* Python values a call returns, as records, so that any two can be compared
NoneVal == [kind |-> "None"]
StrVal(text) == [kind |-> "str", text |-> text]

-----------------------------------------------------------------------------
(* Sequences and strings *)

RECURSIVE SeqsUpTo(_, _)
SeqsUpTo(S, n) ==
    IF n = 0 THEN {<<>>}
    ELSE LET shorter == SeqsUpTo(S, n - 1)
         IN  shorter \cup {Append(q, c) : q \in shorter, c \in S}

Min(S) == CHOOSE m \in S : \A n \in S : m <= n

\* str[0:k]
Prefix(str, k) == SubSeq(str, 1, k)

\* whether sub occurs in str starting at (1-based) position p
OccursAt(sub, str, p) ==
    /\ p + Len(sub) - 1 <= Len(str)
    /\ SubSeq(str, p, p + Len(sub) - 1) = sub

-----------------------------------------------------------------------------
(* _group *)

MaxNameLen == 2
MaxRules == 2

Alphabet == {"a", "b"}
GroupNames == SeqsUpTo(Alphabet, MaxNameLen)

\* A compiled pattern is the set of strings its expression denotes (lang) and
\* whether the expression ends in "$".  The expressions are
\* a, b, ab, a|b, the empty expression, and each of them followed by "$".
Langs == { {<<"a">>}, {<<"b">>}, {<<"a", "b">>}, {<<"a">>, <<"b">>}, {<<>>} }
Patterns == [lang : Langs, dollar : BOOLEAN]
Replacements == { <<"x">>, <<"y">> }
Rules == Patterns \X Replacements
RuleLists == UNION { [1..n -> Rules] : n \in 0..MaxRules }

\* pattern.search(s): some characters anywhere in str match the expression
MatchAnywhere(pattern, str) ==
    \E p \in 1..(Len(str) + 1) : \E k \in 0..Len(str) :
        /\ p + k - 1 <= Len(str)
        /\ SubSeq(str, p, p + k - 1) \in pattern.lang
        /\ (pattern.dollar => p + k - 1 = Len(str))

\* pattern.match(s): some characters at the beginning of str match the
\* expression; "$" lets the match end only at the end of str
Match(pattern, str) ==
    \E k \in 0..Len(str) :
        /\ Prefix(str, k) \in pattern.lang
        /\ (pattern.dollar => k = Len(str))

\* a loop that goes on after a match: the last matching rule is returned
RECURSIVE LastRule(_, _, _)
LastRule(str, gs, k) ==
    IF k > Len(gs) THEN 0
    ELSE LET later == LastRule(str, gs, k + 1)
         IN  IF later # 0 THEN later
             ELSE IF Match(gs[k][1], str) THEN k ELSE 0

\* the loop of _group from rule k on: the index of the rule whose
\* replacement is returned, 0 when the loop ends without returning
RECURSIVE ReturningRule(_, _, _)
ReturningRule(str, gs, k) ==
    IF k > Len(gs) THEN 0
    ELSE IF Match(gs[k][1], str) THEN k
    ELSE ReturningRule(str, gs, k + 1)

Group(str, gs) ==
    LET k == ReturningRule(str, gs, 1)
    IN  [rule |-> k, value |-> IF k = 0 THEN str ELSE gs[k][2]]

GroupIdle ==
    /\ s = <<>> /\ groups = <<>> /\ group_pc = "idle"
    /\ group_ret = [rule |-> 0, value |-> <<>>]

GroupInit ==
    /\ s \in GroupNames
    /\ groups \in RuleLists
    /\ group_pc = "call"
    /\ group_ret = [rule |-> 0, value |-> <<>>]

CallGroup ==
    /\ group_pc = "call"
    /\ group_ret' = Group(s, groups)
    /\ group_pc' = "done"
    /\ UNCHANGED <<s, groups, plot_vars, date_vars, cal_vars, li_vars>>

-----------------------------------------------------------------------------
(* Chart construction: plot and plot_data *)

Sentinel == "Can't generate plot"

\* the library calls of one chart construction, in program order; plot makes
\* the xticks call only for the flags '-T' and '-L', plot_data always
ChartSteps(withTicks) ==
    <<"subplots", "bar", "set_title", "set_xlabel", "set_ylabel">>
    \o (IF withTicks THEN <<"xticks">> ELSE <<>>)
    \o <<"set_size_inches">>

AllSteps == {"subplots", "bar", "set_title", "set_xlabel", "set_ylabel",
             "xticks", "set_size_inches"}

\* Runs the calls in order.  failing is the set of calls that raise for the
\* arguments at hand (what matplotlib does with them is not this program's
\* code).  The result is the number of calls completed and whether one raised.
RECURSIVE Construct(_, _, _)
Construct(steps, failing, done) ==
    IF done = Len(steps) THEN [raised |-> FALSE, done |-> done]
    ELSE IF steps[done + 1] \in failing THEN [raised |-> TRUE, done |-> done]
    ELSE Construct(steps, failing, done + 1)

Figure(steps, data) == [kind |-> "Figure", calls |-> steps, data |-> data]

\* plot without its try/except
PlotUnguarded(flag, failing) ==
    LET steps == ChartSteps(flag \in {"-T", "-L"})
        r == Construct(steps, failing, 0)
    IN  IF r.raised
        THEN [raised |-> TRUE, value |-> NoneVal, done |-> r.done]
        ELSE [raised |-> FALSE, value |-> Figure(steps, flag), done |-> r.done]

\* plot(x, y, z, xlabel, ylabel, title, fig_size, fig_color, flag)
Plot(flag, failing) ==
    LET steps == ChartSteps(flag \in {"-T", "-L"})
        r == Construct(steps, failing, 0)
    IN  IF r.raised
        THEN [raised |-> FALSE, value |-> StrVal(Sentinel), done |-> r.done]
        ELSE [raised |-> FALSE, value |-> Figure(steps, flag), done |-> r.done]

Flags == {"-T", "-L", "-G", None}

NoRet == [raised |-> FALSE, value |-> NoneVal, done |-> 0]

PlotIdle ==
    /\ plot_in = [flag |-> None, failing |-> {}]
    /\ plot_ret = NoRet /\ plot_pc = "idle"

PlotInit ==
    /\ plot_in \in [flag : Flags, failing : SUBSET AllSteps]
    /\ plot_ret = NoRet
    /\ plot_pc = "call"

CallPlot ==
    /\ plot_pc = "call"
    /\ plot_ret' = Plot(plot_in.flag, plot_in.failing)
    /\ plot_pc' = "done"
    /\ UNCHANGED <<plot_in, group_vars, date_vars, cal_vars, li_vars>>

-----------------------------------------------------------------------------
(* _valid_date *)

Digits == {"0", "1", "2", "3", "4", "5", "6", "7", "8", "9"}
DigitVal(c) ==
    CASE c = "0" -> 0 [] c = "1" -> 1 [] c = "2" -> 2 [] c = "3" -> 3
      [] c = "4" -> 4 [] c = "5" -> 5 [] c = "6" -> 6 [] c = "7" -> 7
      [] c = "8" -> 8 [] c = "9" -> 9

RECURSIVE Number(_)
Number(str) ==
    IF str = <<>> THEN 0
    ELSE 10 * Number(SubSeq(str, 1, Len(str) - 1)) + DigitVal(str[Len(str)])

IsLeap(y) == (y % 4 = 0 /\ y % 100 # 0) \/ y % 400 = 0
DaysIn(y, m) ==
    IF m = 2 THEN (IF IsLeap(y) THEN 29 ELSE 28)
    ELSE IF m \in {4, 6, 9, 11} THEN 30 ELSE 31

\* the text has the shape YYYY-MM-DD
IsoShaped(str) ==
    /\ Len(str) = 10
    /\ str[5] = "-" /\ str[8] = "-"
    /\ \A k \in {1, 2, 3, 4, 6, 7, 9, 10} : str[k] \in Digits

IsoFields(str) ==
    [kind |-> "Arrow", year |-> Number(SubSeq(str, 1, 4)),
     month |-> Number(SubSeq(str, 6, 7)), day |-> Number(SubSeq(str, 9, 10))]

InRange(d) ==
    /\ d.year >= 1
    /\ d.month \in 1..12
    /\ d.day \in 1..DaysIn(d.year, d.month)

\* arrow.get(arg) for one argument, on the texts of DateTexts: a date for a
\* well-formed date string; the parser's own error (arrow.parser.ParserError,
\* which is not a TypeError) for a string that is not shaped as a date;
\* ValueError for fields out of range; TypeError for an object of a type
\* arrow does not accept.  No string makes arrow.get raise TypeError.
ArrowGet(arg) ==
    IF arg.kind # "str" THEN [raised |-> "TypeError", value |-> NoneVal]
    ELSE IF ~IsoShaped(arg.text) THEN [raised |-> "ParserError", value |-> NoneVal]
    ELSE IF ~InRange(IsoFields(arg.text)) THEN [raised |-> "ValueError", value |-> NoneVal]
    ELSE [raised |-> None, value |-> IsoFields(arg.text)]

NotValidDate(arg) == StrVal(<<"Not a valid date: '", arg.text, "'.">>)

\* _valid_date(s): only TypeError is caught and turned into ArgumentTypeError
ValidDate(arg) ==
    LET r == ArrowGet(arg)
    IN  IF r.raised = "TypeError"
        THEN [raised |-> "ArgumentTypeError", value |-> NotValidDate(arg)]
        ELSE r

YearTexts == { <<"2", "0", "1", "6">>, <<"2", "0", "1", "7">>, <<"2", "0", "1", "x">> }
MonthTexts == { <<"0", "0">>, <<"0", "2">>, <<"1", "2">>, <<"1", "3">>, <<"F", "e">> }
DayTexts == { <<"0", "0">>, <<"0", "1">>, <<"2", "9">>, <<"3", "1">>, <<"3", "2">> }
Separators == { <<"-">>, <<"/">>, <<>> }

DateTexts ==
    { y \o sep \o m \o sep \o d :
        y \in YearTexts, sep \in Separators, m \in MonthTexts, d \in DayTexts }
    \cup { <<"F", "e", "b">> }

DateArgs == [kind : {"str"}, text : DateTexts]
            \cup { [kind |-> "list", text |-> <<>>] }

NoDate == [raised |-> None, value |-> NoneVal]

DateIdle ==
    /\ date_in = [kind |-> "str", text |-> <<>>]
    /\ date_ret = NoDate /\ date_pc = "idle"

DateInit ==
    /\ date_in \in DateArgs
    /\ date_ret = NoDate
    /\ date_pc = "call"

CallValidDate ==
    /\ date_pc = "call"
    /\ date_ret' = ValidDate(date_in)
    /\ date_pc' = "done"
    /\ UNCHANGED <<date_in, group_vars, plot_vars, cal_vars, li_vars>>

-----------------------------------------------------------------------------
(* Data frames *)

\* A frame is [columns |-> the column names in order, rows |-> the rows in
\* order]; a row is a record of its cells plus "index", its index label.
Frame(columns, rows) == [columns |-> columns, rows |-> rows]

Range(seq) == { seq[k] : k \in DOMAIN seq }

SetCell(row, col, v) ==
    [c \in DOMAIN row \cup {col} |-> IF c = col THEN v ELSE row[c]]

\* frame[col] = values, one value per row: the frame object itself changes
SetColumn(frame, col, values) ==
    Frame(IF col \in Range(frame.columns) THEN frame.columns
          ELSE Append(frame.columns, col),
          [k \in DOMAIN frame.rows |-> SetCell(frame.rows[k], col, values[k])])

\* frame[mask], the mask one boolean per row: a new frame of the rows the
\* mask selects, in order, labels kept
Select(frame, mask) ==
    LET picked == SelectSeq([k \in DOMAIN frame.rows |-> k], LAMBDA k : mask[k])
    IN  Frame(frame.columns, [j \in DOMAIN picked |-> frame.rows[picked[j]]])

\* frame.loc[label] = row: the row labelled label is replaced, or the row is
\* appended when no row has the label
LocSet(frame, label, row) ==
    LET new == SetCell(row, "index", label)
        at == { k \in DOMAIN frame.rows : frame.rows[k].index = label }
    IN  IF at = {} THEN Frame(frame.columns, Append(frame.rows, new))
        ELSE Frame(frame.columns,
                   [k \in DOMAIN frame.rows |-> IF k \in at THEN new ELSE frame.rows[k]])

\* seconds / 60 and seconds / 3600 are kept exact, as a numerator over a
\* positive denominator
Quot(n, d) == [num |-> n, den |-> d]
QuotLess(q, n) == q.num < n * q.den
QuotGreater(q, n) == q.num > n * q.den

CharCode(c) ==
    CASE c = " " -> 32 [] c = "B" -> 66 [] c = "a" -> 97 [] c = "b" -> 98
      [] c = "d" -> 100 [] c = "g" -> 103 [] c = "h" -> 104 [] c = "i" -> 105
      [] c = "m" -> 109 [] c = "n" -> 110 [] c = "r" -> 114 [] c = "s" -> 115
      [] c = "t" -> 116 [] c = "u" -> 117 [] c = "y" -> 121

RECURSIVE LexLess(_, _)
LexLess(a, b) ==
    IF a = <<>> THEN b # <<>>
    ELSE IF b = <<>> THEN FALSE
    ELSE IF CharCode(Head(a)) # CharCode(Head(b))
         THEN CharCode(Head(a)) < CharCode(Head(b))
    ELSE LexLess(Tail(a), Tail(b))

DateColumn == "Sent At"
DirectionColumn == "Direction"

\* the order groupby sorts the keys of column by in
KeyLess(by, a, b) ==
    IF by = "event_name" THEN LexLess(a, b)
    ELSE IF by = DateColumn THEN a.day < b.day
    ELSE a < b

AddVal(col, a, b) ==
    IF col \in {"minutes", "hours"} THEN Quot(a.num + b.num, a.den) ELSE a + b

\* one more row of the frame goes into the table of groups: every row is
\* given a group of its own (the keys are not compared)
AccumulateApart(table, row, by, cols) ==
    LET new == [c \in {by} \cup cols |-> row[c]]
        before == SelectSeq(table, LAMBDA g : ~KeyLess(by, row[by], g[by]))
        after == SelectSeq(table, LAMBDA g : KeyLess(by, row[by], g[by]))
    IN  before \o <<new>> \o after

\* one more row of the frame goes into the table of groups, which is kept
\* sorted by key: its cells are added to the group with its key, or the row
\* starts a new group
Accumulate(table, row, by, cols) ==
    LET at == { k \in DOMAIN table : table[k][by] = row[by] }
        new == [c \in {by} \cup cols |-> row[c]]
        before == SelectSeq(table, LAMBDA g : KeyLess(by, g[by], row[by]))
        after == SelectSeq(table, LAMBDA g : KeyLess(by, row[by], g[by]))
    IN  IF at # {}
        THEN [k \in DOMAIN table |->
                 IF k \in at
                 THEN [c \in {by} \cup cols |->
                          IF c = by THEN table[k][c]
                          ELSE AddVal(c, table[k][c], row[c])]
                 ELSE table[k]]
        ELSE before \o <<new>> \o after

RECURSIVE GroupRows(_, _, _, _)
GroupRows(rows, by, cols, table) ==
    IF rows = <<>> THEN table
    ELSE GroupRows(Tail(rows), by, cols, Accumulate(table, Head(rows), by, cols))

\* frame.groupby(by, as_index=False)[cols].sum(): one row per key, sorted by
\* key, labelled 0, 1, ...
GroupBySum(frame, by, cols) ==
    LET table == GroupRows(frame.rows, by, cols, <<>>)
    IN  Frame(<<by>> \o SelectSeq(frame.columns, LAMBDA c : c \in cols /\ c # by),
              [k \in DOMAIN table |-> SetCell(table[k], "index", k - 1)])

-----------------------------------------------------------------------------
(* _process_calendar *)

MaxEvents == 2

gym == <<"g", "y", "m">>
run == <<"r", "u", "n">>
birthday == <<"b", "i", "r", "t", "h", "d", "a", "y">>
my_birthdays == <<"m", "y", " ">> \o birthday \o <<"s">>
Birthday == <<"B", "i", "r", "t", "h", "d", "a", "y">>

Begin(day, month, year, hour) ==
    [day |-> day, month |-> month, year |-> year, hour |-> hour]

Event(name, begin, duration) ==
    [name |-> name, begin |-> begin, duration |-> duration]

\* The events a calendar file may hold: a name, a begin, and the duration in
\* seconds that event.duration reports (the end minus the begin; negative
\* when the end precedes the begin).
Events ==
    { Event(gym, Begin(4, 1, 2016, 9), 1800),
      Event(gym, Begin(5, 1, 2017, 18), 3600),
      Event(run, Begin(31, 12, 2017, 0), 86399),
      Event(birthday, Begin(2, 2, 2017, 12), 1800),
      Event(my_birthdays, Begin(4, 1, 2016, 9), 3600),
      Event(Birthday, Begin(29, 2, 2016, 7), 1800),
      Event(gym, Begin(5, 1, 2017, 18), 0),
      Event(gym, Begin(30, 12, 2016, 0), 86400),
      Event(run, Begin(2, 2, 2017, 23), -3600) }

EventLists == UNION { [1..n -> Events] : n \in 0..MaxEvents }

CalColumns == <<"day", "month", "year", "hour", "event_name", "duration">>

\* the row with a duration that is never negative
RowOfClamped(event) ==
    [day |-> event.begin.day, month |-> event.begin.month,
     year |-> event.begin.year, hour |-> event.begin.hour,
     event_name |-> event.name,
     duration |-> IF event.duration < 0 THEN 0 ELSE event.duration]

\* the list assigned to cal_df.loc[i]
RowOf(event) ==
    [day |-> event.begin.day, month |-> event.begin.month,
     year |-> event.begin.year, hour |-> event.begin.hour,
     event_name |-> event.name, duration |-> event.duration]

\* the loop counter is never advanced
SameIndex(n) == n

\* i += 1
NextIndex(n) == n + 1

\* for event in calendar.events: cal_df.loc[i] = [...]; i += 1
RECURSIVE EventLoop(_, _, _)
EventLoop(evs, n, frame) ==
    IF evs = <<>> THEN frame
    ELSE EventLoop(Tail(evs), NextIndex(n), LocSet(frame, n, RowOf(Head(evs))))

ProcessCalendar(evs) == EventLoop(evs, 0, Frame(CalColumns, <<>>))

-----------------------------------------------------------------------------
(* plot_data, get_plots, get_cal_dates *)

DayHours == 24
SecondsPerMinute == 60
SecondsPerHour == 3600

\* str.contains: the text occurs somewhere in the name
Contains(str, sub) == \E p \in 1..(Len(str) + 1) : OccursAt(sub, str, p)

NotBirthday(row) == ~Contains(row.event_name, birthday)

\* a mask that keeps events of exactly one day
WithinDayInclusive(row) ==
    ~QuotGreater(row.hours, DayHours) /\ QuotGreater(row.hours, 0)

\* (cal_df['hours'] < 24) & (cal_df['hours'] > 0)
WithinDay(row) == QuotLess(row.hours, DayHours) /\ QuotGreater(row.hours, 0)

\* plot_data(x, y, x_column, y_column, ...): raises when a library call does
PlotData(x, y, x_column, y_column, title, failing) ==
    LET steps == ChartSteps(TRUE)
        r == Construct(steps, failing, 0)
        bars == [k \in DOMAIN x.rows |-> <<x.rows[k][x_column], x.rows[k][y_column]>>]
    IN  IF r.raised THEN [raised |-> TRUE, value |-> NoneVal]
        ELSE [raised |-> FALSE,
              value |-> Figure(steps, [title |-> title, bars |-> bars, labels |-> y])]

Months == <<"January", "Febuary", "March", "April", "May", "June", "July",
            "August", "September", "October", "November", "December">>

\* get_plots(cal_df) when the library calls in failing[k] raise for chart k.
\* input is the caller's frame as passed and arg the same frame after the
\* call; raised tells whether an exception left get_plots and charts how many
\* charts were built before it; the local tables are kept for inspection.
GetPlots(frame, failing) ==
    LET with_minutes ==
            SetColumn(frame, "minutes",
                      [k \in DOMAIN frame.rows |->
                          Quot(frame.rows[k].duration, SecondsPerMinute)])
        arg ==
            SetColumn(with_minutes, "hours",
                      [k \in DOMAIN frame.rows |->
                          Quot(with_minutes.rows[k].duration, SecondsPerHour)])
        no_birthdays ==
            Select(arg, [k \in DOMAIN arg.rows |-> NotBirthday(arg.rows[k])])
        kept ==
            Select(no_birthdays,
                   [k \in DOMAIN no_birthdays.rows |-> WithinDay(no_birthdays.rows[k])])
        counted == SetColumn(kept, "count", [k \in DOMAIN kept.rows |-> 1])
        cal_min == GroupBySum(counted, "event_name", {"event_name", "count", "minutes"})
        cal_month == GroupBySum(counted, "month", {"count"})
        cal_month_time == GroupBySum(counted, "month", {"hours"})
        cal_year_time == GroupBySum(counted, "year", {"count"})
        fig1 == PlotData(cal_month_time, Months, "month", "hours",
                         "Total Time Spent Per Month", failing[1])
        fig2 == PlotData(cal_month, Months, "month", "count",
                         "Total Events Per Month", failing[2])
        fig3 == PlotData(cal_year_time, <<2016, 2017, 2018>>, "year", "count",
                         "Number of Events", failing[3])
        charts == IF fig1.raised THEN 0 ELSE IF fig2.raised THEN 1
                  ELSE IF fig3.raised THEN 2 ELSE 3
    IN  [called |-> TRUE, input |-> frame, failing |-> failing,
         arg |-> arg,
         raised |-> charts < 3,
         charts |-> charts,
         value |-> IF charts < 3 THEN <<>>
                   ELSE <<fig1.value, fig2.value, fig3.value>>,
         cal_df |-> counted, cal_min |-> cal_min, cal_month |-> cal_month,
         cal_month_time |-> cal_month_time, cal_year_time |-> cal_year_time]

\* get_cal_dates(cal_df): a new frame, the argument is only read
GetCalDates(frame) ==
    Frame(<<"Date", "count">>,
          [k \in DOMAIN frame.rows |->
              [index |-> frame.rows[k].index,
               Date |-> [year |-> frame.rows[k].year, month |-> frame.rows[k].month,
                         day |-> frame.rows[k].day],
               count |-> 1]])

\* the library calls that may raise for the table a chart is built from
FaultSets == { {}, {"xticks"} }

EmptyFrame == Frame(<<>>, <<>>)
NoPlots == [called |-> FALSE]

CalIdle ==
    /\ events = <<>> /\ cal_pc = "idle" /\ cal_df = EmptyFrame
    /\ plots_ret = NoPlots /\ dates_ret = EmptyFrame

CalInit ==
    /\ events \in EventLists
    /\ cal_pc = "file"
    /\ cal_df = EmptyFrame
    /\ plots_ret = NoPlots
    /\ dates_ret = EmptyFrame

CallProcessCalendar ==
    /\ cal_pc = "file"
    /\ cal_df' = ProcessCalendar(events)
    /\ cal_pc' = "ready"
    /\ UNCHANGED <<events, plots_ret, dates_ret>>
    /\ UNCHANGED <<group_vars, plot_vars, date_vars, li_vars>>

CallGetPlots ==
    /\ cal_pc = "ready"
    /\ \E failing \in [1..3 -> FaultSets] :
          /\ plots_ret' = GetPlots(cal_df, failing)
          /\ cal_df' = plots_ret'.arg
    /\ UNCHANGED <<events, cal_pc, dates_ret>>
    /\ UNCHANGED <<group_vars, plot_vars, date_vars, li_vars>>

CallGetCalDates ==
    /\ cal_pc = "ready"
    /\ dates_ret' = GetCalDates(cal_df)
    /\ UNCHANGED <<events, cal_pc, cal_df, plots_ret>>
    /\ UNCHANGED <<group_vars, plot_vars, date_vars, li_vars>>

-----------------------------------------------------------------------------
(* linkedin.py: clean_df, get_sent_receive_invites *)

MaxInvites == 2
MaxCleanCalls == 2
DaysBack == 7

\* a cell of the date column: the text of a timestamp as loaded (day number
\* and second of the day), or a datetime.date once clean_df has converted it
Timestamp(day, tod) == [kind |-> "str", day |-> day, tod |-> tod]
Date(day) == [kind |-> "date", day |-> day, tod |-> 0]

\* pd.to_datetime(cell).date(): the time of day is dropped
ToDate(cell) == Date(cell.day)

InviteColumns == <<DateColumn, DirectionColumn>>
InviteRow(cell, direction) ==
    [c \in {DateColumn, DirectionColumn} |-> IF c = DateColumn THEN cell ELSE direction]

InviteRows ==
    { InviteRow(Timestamp(day, tod), dir) :
        day \in {10, 17}, tod \in {0, 3600},
        dir \in {"OUTGOING", "INCOMING", "BLOCKED"} }

InviteTables ==
    UNION { { Frame(InviteColumns, [k \in 1..n |-> SetCell(rows[k], "index", k - 1)]) :
                rows \in [1..n -> InviteRows] } : n \in 0..MaxInvites }

\* df.groupby([date_column]).count().reset_index(): per date, the number of
\* cells in each other column
GroupByCount(frame, date_column) ==
    LET others == Range(frame.columns) \ {date_column}
        ones == Frame(frame.columns,
                      [k \in DOMAIN frame.rows |->
                          [c \in DOMAIN frame.rows[k] |->
                              IF c \in others THEN 1 ELSE frame.rows[k][c]]])
    IN  GroupBySum(ones, date_column, others)

\* clean_df(df, date_column): arg is the caller's frame after the call
CleanDf(frame, date_column) ==
    LET dated ==
            SetColumn(frame, date_column,
                      [k \in DOMAIN frame.rows |-> ToDate(frame.rows[k][date_column])])
        shifted ==
            SetColumn(dated, date_column,
                      [k \in DOMAIN dated.rows |->
                          Date(dated.rows[k][date_column].day - DaysBack)])
    IN  [arg |-> shifted, value |-> GroupByCount(shifted, date_column)]

\* get_sent_receive_invites(df, direction_column)
GetSentReceiveInvites(frame, direction_column) ==
    << Select(frame, [k \in DOMAIN frame.rows |->
                         frame.rows[k][direction_column] = "OUTGOING"]),
       Select(frame, [k \in DOMAIN frame.rows |->
                         frame.rows[k][direction_column] = "INCOMING"]) >>

NoInvites == <<EmptyFrame, EmptyFrame>>

LiIdle ==
    /\ df_in = Frame(InviteColumns, <<>>) /\ df = df_in
    /\ clean_ret = <<>> /\ invites_ret = NoInvites

LiInit ==
    /\ df_in \in InviteTables
    /\ df = df_in
    /\ clean_ret = <<>>
    /\ invites_ret = NoInvites

CallCleanDf ==
    /\ Len(clean_ret) < MaxCleanCalls
    /\ LET r == CleanDf(df, DateColumn)
       IN  /\ df' = r.arg
           /\ clean_ret' = Append(clean_ret, r.value)
    /\ UNCHANGED <<df_in, invites_ret, group_vars, plot_vars, date_vars, cal_vars>>

CallGetSentReceiveInvites ==
    /\ invites_ret' = GetSentReceiveInvites(df, DirectionColumn)
    /\ UNCHANGED <<df_in, df, clean_ret, group_vars, plot_vars, date_vars, cal_vars>>

-----------------------------------------------------------------------------
(* Specifications *)

\* _group on every name and rule list
GroupStart == GroupInit /\ PlotIdle /\ DateIdle /\ CalIdle /\ LiIdle
GroupNext == CallGroup
SpecGroup == GroupStart /\ [][GroupNext]_vars

\* plot on every flag and every set of raising library calls
PlotStart == PlotInit /\ GroupIdle /\ DateIdle /\ CalIdle /\ LiIdle
PlotNext == CallPlot
SpecPlot == PlotStart /\ [][PlotNext]_vars

\* _valid_date on every argument
DateStart == DateInit /\ GroupIdle /\ PlotIdle /\ CalIdle /\ LiIdle
DateNext == CallValidDate
SpecDate == DateStart /\ [][DateNext]_vars

\* a calendar file is processed, then charts and dates are asked for
CalStart == CalInit /\ GroupIdle /\ PlotIdle /\ DateIdle /\ LiIdle
CalNext == CallProcessCalendar \/ CallGetPlots \/ CallGetCalDates
SpecCal == CalStart /\ [][CalNext]_vars

\* the pipeline operations, called in any order on the tables of a run over a
\* calendar export or of a run over an invite export
PipelineInit ==
    /\ GroupIdle /\ PlotIdle /\ DateIdle
    /\ \/ CalInit /\ LiIdle
       \/ CalInit /\ events = <<>> /\ LiInit
PipelineNext ==
    \/ CallProcessCalendar \/ CallGetPlots \/ CallGetCalDates
    \/ CallCleanDf \/ CallGetSentReceiveInvites
SpecPipeline == PipelineInit /\ [][PipelineNext]_vars

Init == PipelineInit
Next == PipelineNext
Spec == SpecPipeline

-----------------------------------------------------------------------------
(* Properties *)

\* the rules of the list whose pattern matches the string
MatchingRules(str, gs) == { k \in DOMAIN gs : Match(gs[k][1], str) }

\* C3: _group returns the replacement of the lowest-index rule whose pattern
\* matches s, whatever later rules match too, and s itself when no rule
\* matches (the empty rule list included).
C3_FirstMatchWins ==
    group_pc = "done" =>
        LET matching == MatchingRules(s, groups)
        IN  IF matching = {} THEN group_ret.value = s
            ELSE group_ret.value = groups[Min(matching)][2]

\* two rules match, with different replacements, and the earlier one won
C3_Witness ==
    /\ group_pc = "done"
    /\ \E j, k \in MatchingRules(s, groups) :
          /\ j < k /\ groups[j][2] # groups[k][2]
          /\ j = Min(MatchingRules(s, groups))
          /\ group_ret.value = groups[j][2]

\* the expression matches some characters at the beginning of str
MatchesAtStart(pattern, str) ==
    \E k \in 0..Len(str) :
        /\ SubSeq(str, 1, k) \in pattern.lang
        /\ (pattern.dollar => k = Len(str))

\* the expression matches the whole of str
MatchesFully(pattern, str) == str \in pattern.lang

\* the expression matches a proper prefix of str
MatchesProperPrefix(pattern, str) ==
    /\ ~pattern.dollar
    /\ \E k \in 0..(Len(str) - 1) : SubSeq(str, 1, k) \in pattern.lang

\* the expression matches a part of str that begins after its first character
MatchesInside(pattern, str) ==
    \E p \in 2..(Len(str) + 1) : \E k \in 0..Len(str) :
        /\ p + k - 1 <= Len(str)
        /\ SubSeq(str, p, p + k - 1) \in pattern.lang
        /\ (pattern.dollar => p + k - 1 = Len(str))

\* C4 (as claimed): a rule whose pattern does not match the full name, only a
\* proper prefix or an inner part of it, does not rewrite the name.
C4_FullNameOnly ==
    group_pc = "done" =>
        \A k \in DOMAIN groups :
            ( /\ ~MatchesFully(groups[k][1], s)
              /\ \/ MatchesProperPrefix(groups[k][1], s)
                 \/ MatchesInside(groups[k][1], s) )
            => group_ret.rule # k

\* C4 (amended): a rule applies only when its pattern matches at the
\* beginning of the name: a rule whose pattern matches only inside the name
\* does not rewrite it, and a rule whose pattern matches a proper prefix of
\* the name does rewrite it when no earlier rule matches.
C4_AnchoredAtStartOnly ==
    group_pc = "done" =>
        \A k \in DOMAIN groups :
            /\ group_ret.rule = k => MatchesAtStart(groups[k][1], s)
            /\ (MatchesInside(groups[k][1], s) /\ ~MatchesAtStart(groups[k][1], s))
                   => group_ret.rule # k
            /\ ( /\ MatchesProperPrefix(groups[k][1], s)
                 /\ \A j \in 1..(k - 1) : ~MatchesAtStart(groups[j][1], s) )
                   => (group_ret.rule = k /\ group_ret.value = groups[k][2])

\* a rule whose pattern matches a proper prefix and not the full name rewrote
\* the name
C4_Witness ==
    /\ group_pc = "done"
    /\ group_ret.rule # 0
    /\ MatchesProperPrefix(groups[group_ret.rule][1], s)
    /\ ~MatchesFully(groups[group_ret.rule][1], s)
    /\ group_ret.value = groups[group_ret.rule][2]

\* the library calls plot makes for a flag
CallsOfPlot(flag) ==
    IF flag = "-T" \/ flag = "-L" THEN AllSteps ELSE AllSteps \ {"xticks"}

\* C2: plot never raises; it returns a chart or the failure sentinel, and the
\* sentinel exactly when one of the calls it makes raises.
C2_PlotNeverRaises ==
    plot_pc = "done" =>
        /\ ~plot_ret.raised
        /\ plot_ret.value.kind \in {"Figure", "str"}
        /\ plot_ret.value = StrVal(Sentinel)
              <=> (CallsOfPlot(plot_in.flag) \cap plot_in.failing # {})

\* a call raised and plot returned the sentinel
C2_Witness ==
    /\ plot_pc = "done"
    /\ "bar" \in plot_in.failing
    /\ ~plot_ret.raised
    /\ plot_ret.value = StrVal(Sentinel)

\* the text is a date: year-month-day, the fields in range
WellFormedDate(text) == IsoShaped(text) /\ InRange(IsoFields(text))

\* C7: every string that is not a well-formed date is rejected by
\* _valid_date with the "Not a valid date" argument error.
C7_InvalidDateRejected ==
    (date_pc = "done" /\ date_in.kind = "str" /\ ~WellFormedDate(date_in.text))
        => /\ date_ret.raised = "ArgumentTypeError"
           /\ date_ret.value = NotValidDate(date_in)

\* C8: _process_calendar returns one row per event: n rows for n events,
\* labelled 0..n-1, row k made from the k-th event.
C8_OneRowPerEvent ==
    cal_pc = "ready" =>
        /\ Len(cal_df.rows) = Len(events)
        /\ \A k \in DOMAIN cal_df.rows :
              /\ cal_df.rows[k].index = k - 1
              /\ cal_df.rows[k].event_name = events[k].name
              /\ cal_df.rows[k].day = events[k].begin.day
              /\ cal_df.rows[k].month = events[k].begin.month
              /\ cal_df.rows[k].year = events[k].begin.year
              /\ cal_df.rows[k].hour = events[k].begin.hour

\* a calendar of several different events was processed
C8_Witness ==
    /\ cal_pc = "ready"
    /\ Len(events) = MaxEvents
    /\ events[1] # events[2]
    /\ Len(cal_df.rows) = MaxEvents

\* C9 (as claimed): every record has a duration of at least 0 seconds.
C9_DurationNonNegative ==
    cal_pc = "ready" =>
        \A k \in DOMAIN cal_df.rows : cal_df.rows[k].duration >= 0

\* C9 (amended): every record carries the duration of its event, in seconds,
\* unchanged; it is negative when the event's end precedes its begin.
C9_DurationPassedThrough ==
    cal_pc = "ready" =>
        \A k \in DOMAIN cal_df.rows \cap DOMAIN events :
            cal_df.rows[k].duration = events[k].duration

\* an event that ends before it begins gave a record of negative duration
C9_Witness ==
    /\ cal_pc = "ready"
    /\ \E k \in DOMAIN cal_df.rows :
          events[k].duration < 0 /\ cal_df.rows[k].duration < 0

\* a record that the filtering step is to keep
Survives(row) ==
    /\ ~(\E p \in 1..Len(row.event_name) : OccursAt(birthday, row.event_name, p))
    /\ row.duration > 0
    /\ row.duration < DayHours * SecondsPerHour

\* C5: the filtering step of get_plots keeps a record if and only if its name
\* does not contain "birthday" and its duration is above 0 and under 24 hours.
C5_FilterKeepsExactly ==
    plots_ret.called =>
        LET given == plots_ret.input.rows
            kept == plots_ret.cal_df.rows
        IN  /\ \A k \in DOMAIN given :
                  Survives(given[k]) <=>
                      \E j \in DOMAIN kept :
                          /\ kept[j].index = given[k].index
                          /\ kept[j].event_name = given[k].event_name
                          /\ kept[j].duration = given[k].duration
            /\ \A j \in DOMAIN kept :
                  \E k \in DOMAIN given : kept[j].index = given[k].index
            /\ Len(kept) = Cardinality({ k \in DOMAIN given : Survives(given[k]) })

\* a table with a birthday record of ordinary length, a too-long record or a
\* record of no length, and a record that is kept
C5_Witness ==
    /\ plots_ret.called
    /\ \E a, b \in DOMAIN plots_ret.input.rows :
          /\ \/ /\ Contains(plots_ret.input.rows[a].event_name, birthday)
                /\ plots_ret.input.rows[a].duration = 1800
             \/ plots_ret.input.rows[a].duration >= DayHours * SecondsPerHour
             \/ plots_ret.input.rows[a].duration <= 0
          /\ Survives(plots_ret.input.rows[b])
    /\ Len(plots_ret.cal_df.rows) = 1

RECURSIVE SumOf(_, _)
SumOf(rows, col) ==
    IF rows = <<>> THEN 0 ELSE Head(rows)[col] + SumOf(Tail(rows), col)

\* the table has one row per value of the key among the rows, and its counts
\* add up to the number of rows
OneRowPerKey(table, by, rows) ==
    /\ \A j, k \in DOMAIN table.rows : table.rows[j][by] = table.rows[k][by] => j = k
    /\ { table.rows[k][by] : k \in DOMAIN table.rows } = { rows[k][by] : k \in DOMAIN rows }
    /\ SumOf(table.rows, "count") = Len(rows)

\* C6: grouped by event name, by month and by year, the aggregated table has
\* exactly one row per key of the filtered records, and its counts add up to
\* the number of filtered records.
C6_OneRowPerKey ==
    plots_ret.called =>
        /\ OneRowPerKey(plots_ret.cal_min, "event_name", plots_ret.cal_df.rows)
        /\ OneRowPerKey(plots_ret.cal_month, "month", plots_ret.cal_df.rows)
        /\ OneRowPerKey(plots_ret.cal_year_time, "year", plots_ret.cal_df.rows)

\* several filtered records fell into one group
C6_Witness ==
    /\ plots_ret.called
    /\ Len(plots_ret.cal_df.rows) > 1
    /\ Len(plots_ret.cal_month.rows) = 1
    /\ plots_ret.cal_month.rows[1].count = Len(plots_ret.cal_df.rows)

\* C1: when the construction of a chart fails in get_plots, the run does not
\* abort, the chart's slot holds the failure sentinel, and every other chart
\* of the run is produced.
C1_FailuresIsolated ==
    (plots_ret.called /\ \E k \in 1..3 : plots_ret.failing[k] # {}) =>
        /\ ~plots_ret.raised
        /\ Len(plots_ret.value) = 3
        /\ \A k \in 1..3 :
              IF plots_ret.failing[k] # {}
              THEN plots_ret.value[k] = StrVal(Sentinel)
              ELSE plots_ret.value[k].kind = "Figure"

\* C10: whatever operations were called, the caller's tables have the columns
\* and cells they had before, and a repeated call gives the same result.
C10_InputsUnchanged ==
    /\ cal_pc = "ready" => cal_df = ProcessCalendar(events)
    /\ df = df_in
    /\ \A j, k \in DOMAIN clean_ret : clean_ret[j] = clean_ret[k]

====
